---- MODULE Spec2Model ----
(***************************************************************************)
(* Model of src/raw/clipboardimage.rs of clipboard-win: the format         *)
(* catalog, the resolver get_id_for_format, the builder                    *)
(* From<&[&str]>::from with its CF_DIBV5 file-header synthesis, and        *)
(* write_to_buffer.  The clipboard (EnumFormats, format_name, size,        *)
(* get_vec) and the image codec are collaborators outside the file; they   *)
(* are modelled at their interface.                                        *)
(*                                                                         *)
(* Two things the source leaves to the build are inputs of the model:      *)
(* whether u32 `+`/`-` panic or wrap on overflow, and whether taking        *)
(* &BITMAPV5HEADER at byte offset 14 of a Vec<u8> (a reference that is not  *)
(* 4-byte aligned) traps or reads the bytes.                               *)
(***************************************************************************)
EXTENDS Integers, Sequences, FiniteSets, TLC

VARIABLES
    clipboard,        \* the formats the clipboard exposes, in enumeration order
    preferred,        \* the caller's preferred_formats slice
    overflowChecks,   \* build option: integer overflow panics (debug) or wraps (release)
    alignChecks,      \* build option: a misaligned reference traps or is read as is
    pc,               \* "init" -> "built" (from ran) -> "written" (write_to_buffer ran)
    call,             \* what the from call did and produced
    out,              \* the caller's output buffer after write_to_buffer
    outBefore,        \* its content before write_to_buffer
    ret               \* the value write_to_buffer returned

vars == <<clipboard, preferred, overflowChecks, alignChecks, pc, call, out, outBefore, ret>>

----------------------------------------------------------------------------
(* Bounds of the model *)

MaxPreferred == 2     \* longest preferred list
MaxFormats   == 2     \* most formats on the clipboard (main specification)
MaxColours   == 1     \* most colour-table entries of a DIB blob
MaxPixels    == 2     \* most pixel bytes of a DIB blob
MaxOut       == 1     \* longest initial content of the output buffer

----------------------------------------------------------------------------
(* Options and fixed-width integers *)

None    == [some |-> FALSE]
Some(x) == [some |-> TRUE, val |-> x]

\* A u32 is kept as its two 16-bit halves [hi, lo], value hi * 2^16 + lo, so that
\* every value of the type is representable and arithmetic wraps at 2^32.
Half == 65536

\* `n as u32` for a length n
as_u32(n) == [hi |-> (n \div Half) % Half, lo |-> n % Half]

MaxU32 == [hi |-> Half - 1, lo |-> Half - 1]

\* u16::to_le_bytes / u32::to_le_bytes
to_le_bytes16(n) == <<n % 256, (n \div 256) % 256>>
to_le_bytes32(v) == to_le_bytes16(v.lo) \o to_le_bytes16(v.hi)

\* reading a DWORD field of a header struct laid over the bytes b at byte offset off
read_u32(b, off) ==
    [hi |-> b[off + 3] + 256 * b[off + 4], lo |-> b[off + 1] + 256 * b[off + 2]]

\* mem::size_of of the two winapi structs (BITMAPFILEHEADER is packed)
SizeofFileHeader == 14
SizeofV5Header   == 124
\* byte offset of bV5SizeImage inside BITMAPV5HEADER
OffsetSizeImage  == 20

----------------------------------------------------------------------------
(* ClipboardImage *)

NotFound                 == [tag |-> "NotFound"]
ImageBinary(f, di)       == [tag |-> "ImageBinary", format |-> f, image |-> di]
ImageString(id, name, s) == [tag |-> "ImageString", id |-> id, name |-> name, bytes |-> s]

----------------------------------------------------------------------------
(* Format catalog *)

MappedFormat(k, n1, n2, f) == [kind |-> k, names |-> <<n1, n2>>, format |-> f]

get_mappedformat_for(imgtype) ==
    CASE imgtype = "Bmp"  -> Some(MappedFormat("binary", "CF_DIBV5", "", Some("Bmp")))
      [] imgtype = "Png"  -> Some(MappedFormat("binary", "PNG", "image/png", Some("Png")))
      [] imgtype = "Jpeg" -> Some(MappedFormat("binary", "JFIF", "image/jpeg", Some("Jpeg")))
      [] imgtype = "Gif"  -> Some(MappedFormat("binary", "GIF", "image/gif", Some("Gif")))
      [] imgtype = "Ico"  -> Some(MappedFormat("binary", "image/ico", "", Some("Ico")))
      [] imgtype = "WebP" -> Some(MappedFormat("binary", "image/webp", "", Some("WebP")))
      [] imgtype = "Svg"  -> Some(MappedFormat("string", "image/svg+xml", "", None))
      [] OTHER            -> None

----------------------------------------------------------------------------
(* The clipboard: a sequence of entries                                    *)
(*   [id, name : Option<string>, data : bytes, sizeOk, fetchOk, decodable] *)
(* in enumeration order.                                                   *)

\* EnumFormats: the identifiers in enumeration order
EnumFormats(cb) == [k \in 1..Len(cb) |-> cb[k].id]

EntryOf(cb, id) == cb[CHOOSE k \in 1..Len(cb) : cb[k].id = id]

\* format_name(id) -> Option<name>
format_name(cb, id) == EntryOf(cb, id).name

\* size(id) -> Option<non-zero length>
size(cb, id) ==
    IF EntryOf(cb, id).sizeOk THEN Some(Len(EntryOf(cb, id).data)) ELSE None

\* get_vec(id, &mut store): appends the bytes of id to store
get_vec(cb, id, store) ==
    IF EntryOf(cb, id).fetchOk
    THEN [ok |-> TRUE, len |-> Len(EntryOf(cb, id).data), store |-> store \o EntryOf(cb, id).data]
    ELSE [ok |-> FALSE, len |-> 0, store |-> store]

\* image::load_from_memory_with_format: the codec accepts the buffer or not
load_from_memory_with_format(cb, id, buf, format) ==
    IF EntryOf(cb, id).decodable
    THEN [ok |-> TRUE, di |-> [decoded |-> format, from |-> id]]
    ELSE [ok |-> FALSE]

----------------------------------------------------------------------------
(* Resolver *)

RECURSIVE scan_formats(_, _, _, _)
scan_formats(cb, enmfmts, requested, k) ==
    IF k > Len(enmfmts)
    THEN [panic |-> FALSE, id |-> 0, name |-> ""]
    ELSE LET no         == enmfmts[k]
             avail_name == format_name(cb, no)
         IN  IF ~avail_name.some
             THEN [panic |-> TRUE, id |-> 0, name |-> ""]        \* unwrap() on None
             ELSE IF \E r \in 1..Len(requested) : requested[r] = avail_name.val
                  THEN [panic |-> FALSE, id |-> no, name |-> avail_name.val]
                  ELSE scan_formats(cb, enmfmts, requested, k + 1)

\* the scan without its break: the last matching format wins
RECURSIVE scan_formats_nobreak(_, _, _, _, _)
scan_formats_nobreak(cb, enmfmts, requested, k, acc) ==
    IF k > Len(enmfmts) THEN acc
    ELSE LET avail_name == format_name(cb, enmfmts[k]) IN
         IF ~avail_name.some THEN [panic |-> TRUE, id |-> 0, name |-> ""]
         ELSE IF \E r \in 1..Len(requested) : requested[r] = avail_name.val
              THEN scan_formats_nobreak(cb, enmfmts, requested, k + 1,
                       [panic |-> FALSE, id |-> enmfmts[k], name |-> avail_name.val])
              ELSE scan_formats_nobreak(cb, enmfmts, requested, k + 1, acc)

get_id_for_format_nobreak(cb, requested) ==
    scan_formats_nobreak(cb, EnumFormats(cb), requested, 1,
                         [panic |-> FALSE, id |-> 0, name |-> ""])

get_id_for_format(cb, requested) ==
    scan_formats(cb, EnumFormats(cb), requested, 1)

----------------------------------------------------------------------------
(* Builder: impl From<&[&str]> for ClipboardImage *)

\* u32 addition and subtraction as the build performs them
add_u32(a, b, checked) ==
    LET lo == a.lo + b.lo
        hi == a.hi + b.hi + (lo \div Half)
    IN  [panic |-> checked /\ hi >= Half, val |-> [hi |-> hi % Half, lo |-> lo % Half]]
sub_u32(a, b, checked) ==
    LET lo == a.lo - b.lo
        hi == a.hi - b.hi - (IF lo < 0 THEN 1 ELSE 0)
    IN  [panic |-> checked /\ hi < 0,
         val |-> [hi |-> (hi + Half) % Half, lo |-> (lo + Half) % Half]]

\* the offset written one byte too far into the header
set_offbits_shifted(store, bytes) ==
    [k \in 1..Len(store) |-> IF k \in 12..15 THEN bytes[k - 11] ELSE store[k]]

\* store[10..14].copy_from_slice(bytes)
set_offbits(store, bytes) ==
    [k \in 1..Len(store) |-> IF k \in 11..14 THEN bytes[k - 10] ELSE store[k]]

Arm(panic, result, decodeInput, synthesized) ==
    [panic |-> panic, result |-> result, decodeInput |-> decodeInput,
     synthesized |-> synthesized]

\* the offset without the file header's own size in the nonzero branch
offbits_nofileheader(rawsize, sizeImage, checked) ==
    IF sizeImage = as_u32(0)
    THEN add_u32(as_u32(SizeofFileHeader), as_u32(SizeofV5Header), checked)
    ELSE sub_u32(as_u32(rawsize), sizeImage, checked)

\* the bfOffBits value of lines 211-224; sizeImage is bh.bV5SizeImage
offbits(rawsize, sizeImage, checked) ==
    IF sizeImage = as_u32(0)
    THEN add_u32(as_u32(SizeofFileHeader), as_u32(SizeofV5Header), checked)
    ELSE LET d == sub_u32(as_u32(rawsize), sizeImage, checked)
             s == add_u32(as_u32(SizeofFileHeader), d.val, checked)
         IN  [panic |-> d.panic \/ s.panic, val |-> s.val]

\* the "CF_DIBV5" arm, lines 172-269
dib_arm(cb, checked, trap, id, format) ==
    LET sz == size(cb, id) IN
    IF ~sz.some THEN Arm("size", NotFound, None, FALSE)          \* size(id).unwrap()
    ELSE
    LET rawsize == sz.val
        total   == add_u32(as_u32(SizeofFileHeader), as_u32(rawsize), checked)
        header  == to_le_bytes16(19778) \o to_le_bytes32(total.val)
                   \o to_le_bytes16(0) \o to_le_bytes16(0) \o to_le_bytes32(as_u32(0))
        got     == get_vec(cb, id, header)
        copiedsize == IF got.ok THEN got.len ELSE 0
        store   == got.store
    IN  IF total.panic THEN Arm("overflow", NotFound, None, FALSE)
        ELSE IF ~(copiedsize > 0) THEN Arm("none", NotFound, None, FALSE)
        ELSE IF Len(store) < SizeofFileHeader + SizeofV5Header
             THEN Arm("slice", NotFound, None, FALSE)            \* store[14..138] out of range
        ELSE IF trap
             THEN Arm("align", NotFound, None, FALSE)            \* &BITMAPV5HEADER at offset 14
        ELSE
        LET sizeImage == read_u32(store, SizeofFileHeader + OffsetSizeImage)
            off       == offbits(rawsize, sizeImage, checked)
            filled    == set_offbits(store, to_le_bytes32(off.val))
            dec       == load_from_memory_with_format(cb, id, filled, format)
        IN  IF off.panic THEN Arm("overflow", NotFound, None, TRUE)
            ELSE IF dec.ok
                 THEN Arm("none", ImageBinary(format, Some(dec.di)), Some(filled), TRUE)
                 ELSE Arm("none", NotFound, Some(filled), TRUE)

\* a rejected buffer kept as a Binary image without a decoded image
binary_arm_keeps_failure(cb, id, format) ==
    LET got == get_vec(cb, id, << >>) IN
    IF ~got.ok THEN Arm("none", NotFound, None, FALSE)
    ELSE LET dec == load_from_memory_with_format(cb, id, got.store, format) IN
         IF dec.ok
         THEN Arm("none", ImageBinary(format, Some(dec.di)), Some(got.store), FALSE)
         ELSE Arm("none", ImageBinary(format, None), Some(got.store), FALSE)

\* every other binary format, lines 270-292
binary_arm(cb, id, format) ==
    LET got == get_vec(cb, id, << >>) IN
    IF ~got.ok THEN Arm("none", NotFound, None, FALSE)
    ELSE LET dec == load_from_memory_with_format(cb, id, got.store, format) IN
         IF dec.ok
         THEN Arm("none", ImageBinary(format, Some(dec.di)), Some(got.store), FALSE)
         ELSE Arm("none", NotFound, Some(got.store), FALSE)

\* the "string" arm, lines 304-314
string_arm(cb, id, name) ==
    LET got == get_vec(cb, id, << >>) IN
    IF got.ok THEN Arm("none", ImageString(id, name, got.store), None, FALSE)
              ELSE Arm("none", NotFound, None, FALSE)

Call(arm, looked, resolved) ==
    [outcome     |-> IF arm.panic = "none" THEN "returned" ELSE "panicked",
     panic       |-> arm.panic,
     result      |-> arm.result,
     looked      |-> looked,
     resolved    |-> resolved,
     decodeInput |-> arm.decodeInput,
     synthesized |-> arm.synthesized]

RECURSIVE from_loop(_, _, _, _, _)
from_loop(cb, checked, trap, preferred_formats, i) ==
    IF i > Len(preferred_formats)
    THEN Call(Arm("none", NotFound, None, FALSE), i - 1, None)   \* return result
    ELSE
    LET mfo == get_mappedformat_for(preferred_formats[i]) IN
    IF ~mfo.some
    THEN Call(Arm("unknown_name", NotFound, None, FALSE), i, None)   \* unwrap() on None
    ELSE
    LET mf    == mfo.val
        found == get_id_for_format(cb, mf.names)
        res   == Some([index |-> i, id |-> found.id, name |-> found.name])
    IN  CASE mf.kind = "binary" ->
               IF found.panic THEN Call(Arm("format_name", NotFound, None, FALSE), i, None)
               ELSE IF found.id # 0
               THEN IF found.name = "CF_DIBV5"
                    THEN Call(dib_arm(cb, checked, trap, found.id, mf.format.val), i, res)
                    ELSE Call(binary_arm(cb, found.id, mf.format.val), i, res)
               ELSE from_loop(cb, checked, trap, preferred_formats, i + 1)
          [] mf.kind = "string" ->
               IF found.panic THEN Call(Arm("format_name", NotFound, None, FALSE), i, None)
               ELSE IF found.id # 0
               THEN Call(string_arm(cb, found.id, found.name), i, res)
               ELSE from_loop(cb, checked, trap, preferred_formats, i + 1)
          [] OTHER -> Call(Arm("kind", NotFound, None, FALSE), i, None)

\* the names validated before the loop starts
from_validating(cb, checked, trap, preferred_formats) ==
    IF \E i \in 1..Len(preferred_formats) : ~get_mappedformat_for(preferred_formats[i]).some
    THEN Call(Arm("unknown_name", NotFound, None, FALSE),
              CHOOSE i \in 1..Len(preferred_formats) :
                  /\ ~get_mappedformat_for(preferred_formats[i]).some
                  /\ \A j \in 1..(i - 1) : get_mappedformat_for(preferred_formats[j]).some,
              None)
    ELSE from_loop(cb, checked, trap, preferred_formats, 1)

from(cb, checked, trap, preferred_formats) ==
    from_loop(cb, checked, trap, preferred_formats, 1)

----------------------------------------------------------------------------
(* write_to_buffer(self, out); enc is what the codec's write_to does:      *)
(* [ok, bytes] - the bytes it wrote to out, and whether it succeeded       *)

\* the Binary arm returning the total length, like the Text arm
write_to_buffer_total(self, outbuf, enc) ==
    CASE self.tag = "ImageString" ->
            [out |-> outbuf \o self.bytes, ret |-> Some(Len(outbuf \o self.bytes)),
             panic |-> FALSE]
      [] self.tag = "ImageBinary" ->
            IF ~self.image.some
            THEN [out |-> outbuf, ret |-> None, panic |-> TRUE]
            ELSE IF enc.ok
                 THEN [out |-> outbuf \o enc.bytes, ret |-> Some(Len(outbuf \o enc.bytes)),
                       panic |-> FALSE]
                 ELSE [out |-> outbuf \o enc.bytes, ret |-> None, panic |-> FALSE]
      [] self.tag = "NotFound" ->
            [out |-> outbuf, ret |-> Some(0), panic |-> FALSE]

write_to_buffer(self, outbuf, enc) ==
    CASE self.tag = "ImageString" ->
            [out |-> outbuf \o self.bytes, ret |-> Some(Len(outbuf \o self.bytes)),
             panic |-> FALSE]
      [] self.tag = "ImageBinary" ->
            IF ~self.image.some
            THEN [out |-> outbuf, ret |-> None, panic |-> TRUE]      \* di.unwrap()
            ELSE LET out_before == Len(outbuf)
                     written    == outbuf \o enc.bytes
                 IN  IF enc.ok
                     THEN [out |-> written, ret |-> Some(Len(written) - out_before),
                           panic |-> FALSE]
                     ELSE [out |-> written, ret |-> None, panic |-> FALSE]
      [] self.tag = "NotFound" ->
            [out |-> outbuf, ret |-> Some(0), panic |-> FALSE]

----------------------------------------------------------------------------
(* Inputs: DIB blobs, clipboards, preferred lists                          *)

\* a BITMAPV5HEADER with bV5SizeImage = s and bV5ClrUsed = n; byte k, 1-based
V5HeaderByte(k, s, n) ==
    CASE k \in 1..4   -> to_le_bytes32(as_u32(SizeofV5Header))[k]             \* bV5Size
      [] k = 5        -> 1                                            \* bV5Width
      [] k = 9        -> 1                                            \* bV5Height
      [] k = 13       -> 1                                            \* bV5Planes
      [] k = 15       -> IF n = 0 THEN 32 ELSE 8                      \* bV5BitCount
      [] k \in 21..24 -> to_le_bytes32(s)[k - 20]                     \* bV5SizeImage
      [] k \in 33..36 -> to_le_bytes32(as_u32(n))[k - 32]                     \* bV5ClrUsed
      [] OTHER        -> 0

BlobLen(n, p) == SizeofV5Header + 4 * n + p

\* info-header, n colour-table entries of 4 bytes, p bytes of pixel data
Blob(s, n, p) ==
    [k \in 1..BlobLen(n, p) |->
        IF k <= SizeofV5Header THEN V5HeaderByte(k, s, n)
        ELSE IF k <= SizeofV5Header + 4 * n THEN 192 + (k - SizeofV5Header)
        ELSE 160 + (k - SizeofV5Header - 4 * n)]

\* the values of bV5SizeImage tried for a blob of n colours and p pixel bytes
SizeImages(n, p) ==
    {as_u32(v) : v \in {0, 1, p, BlobLen(n, p), BlobLen(n, p) + 1}} \cup {MaxU32}

\* blobs shorter than an info-header
ShortLens == {1, 40, 123}

DibBlobs ==
    UNION {{Blob(s, n, p) : s \in SizeImages(n, p)} : n \in 0..MaxColours, p \in 1..MaxPixels}
    \cup {SubSeq(Blob(as_u32(0), 0, 1), 1, l) : l \in ShortLens}

Entry(id, name, data, sizeOk, fetchOk, decodable) ==
    [id |-> id, name |-> name, data |-> data, sizeOk |-> sizeOk, fetchOk |-> fetchOk,
     decodable |-> decodable]

\* CF_DIBV5 is the predefined format 17; the others are registered formats
DibEntries(blobs) ==
    {Entry(17, Some("CF_DIBV5"), b, TRUE, TRUE, d) : b \in blobs, d \in BOOLEAN}

Entries ==
    {Entry(17, Some("CF_DIBV5"), Blob(as_u32(0), 0, 1), TRUE, TRUE, TRUE),
     Entry(17, Some("CF_DIBV5"), Blob(as_u32(0), 0, 1), TRUE, TRUE, FALSE),
     Entry(17, Some("CF_DIBV5"), Blob(as_u32(0), 0, 1), TRUE, FALSE, TRUE),
     Entry(17, Some("CF_DIBV5"), Blob(as_u32(0), 0, 1), FALSE, FALSE, TRUE),
     Entry(49301, Some("PNG"), <<137, 80>>, TRUE, TRUE, TRUE),
     Entry(49301, Some("PNG"), <<137, 80>>, TRUE, TRUE, FALSE),
     Entry(49301, Some("PNG"), <<137, 80>>, TRUE, FALSE, TRUE),
     Entry(49302, Some("image/png"), <<137, 81>>, TRUE, TRUE, TRUE),
     Entry(49303, Some("image/svg+xml"), <<60, 115>>, TRUE, TRUE, FALSE),
     Entry(49303, Some("image/svg+xml"), <<60, 115>>, TRUE, FALSE, FALSE),
     Entry(49304, Some("HTML Format"), <<60, 104>>, TRUE, TRUE, FALSE),
     Entry(130, None, <<1>>, TRUE, TRUE, FALSE)}

SeqsUpTo(S, n) == UNION {[1..m -> S] : m \in 0..n}

Clipboards ==
    {cb \in SeqsUpTo(Entries, MaxFormats) :
        \A a, b \in 1..Len(cb) : a # b => cb[a].id # cb[b].id}

\* "Tiff" is no name of the catalog
PreferredNames == {"Bmp", "Png", "Svg", "Tiff"}

PreferredLists == SeqsUpTo(PreferredNames, MaxPreferred) \ {<< >>}

OutBuffers == SeqsUpTo({7}, MaxOut)

Encodings ==
    {[ok |-> TRUE, bytes |-> <<80>>], [ok |-> TRUE, bytes |-> <<80, 78>>],
     [ok |-> FALSE, bytes |-> << >>], [ok |-> FALSE, bytes |-> <<80>>]}

----------------------------------------------------------------------------
(* The state machine *)

Pending ==
    [outcome |-> "pending", panic |-> "none", result |-> NotFound, looked |-> 0,
     resolved |-> None, decodeInput |-> None, synthesized |-> FALSE]

InitRest ==
    /\ overflowChecks \in BOOLEAN
    /\ alignChecks \in BOOLEAN
    /\ pc = "init"
    /\ call = Pending
    /\ out = << >>
    /\ outBefore = << >>
    /\ ret = None

Init ==
    /\ clipboard \in Clipboards
    /\ preferred \in PreferredLists
    /\ InitRest

\* a clipboard that holds one CF_DIBV5 blob, asked for as "Bmp"
InitDib ==
    /\ clipboard \in {<<e>> : e \in DibEntries(DibBlobs)}
    /\ preferred = <<"Bmp">>
    /\ InitRest

\* ClipboardImage::new(preferred)
From ==
    /\ pc = "init"
    /\ call' = from(clipboard, overflowChecks, alignChecks, preferred)
    /\ pc' = "built"
    /\ UNCHANGED <<clipboard, preferred, overflowChecks, alignChecks, out, outBefore, ret>>

\* image.write_to_buffer(&mut out) on the image the call returned
WriteToBuffer ==
    /\ pc = "built"
    /\ call.outcome = "returned"
    /\ \E out0 \in OutBuffers, enc \in Encodings :
          LET w == write_to_buffer(call.result, out0, enc) IN
          /\ outBefore' = out0
          /\ out' = w.out
          /\ ret' = IF w.panic THEN [some |-> FALSE, panic |-> TRUE] ELSE w.ret
    /\ pc' = "written"
    /\ UNCHANGED <<clipboard, preferred, overflowChecks, alignChecks, call>>

Next == From \/ WriteToBuffer

Spec    == Init /\ [][Next]_vars
SpecDib == InitDib /\ [][Next]_vars

----------------------------------------------------------------------------
(* Vocabulary of the properties, stated on the inputs and not through the  *)
(* operators above                                                         *)

CatalogNames == {"Bmp", "Png", "Jpeg", "Gif", "Ico", "WebP", "Svg"}

Candidates(n) ==
    CASE n = "Bmp"  -> {"CF_DIBV5"}
      [] n = "Png"  -> {"PNG", "image/png"}
      [] n = "Jpeg" -> {"JFIF", "image/jpeg"}
      [] n = "Gif"  -> {"GIF", "image/gif"}
      [] n = "Ico"  -> {"image/ico"}
      [] n = "WebP" -> {"image/webp"}
      [] n = "Svg"  -> {"image/svg+xml"}
      [] OTHER      -> {}

IsText(n) == n = "Svg"

AllKnown(pl) == \A i \in 1..Len(pl) : pl[i] \in CatalogNames
AllNamed(cb) == \A k \in 1..Len(cb) : cb[k].name.some

\* positions of the clipboard whose format name is a candidate of n
Matches(cb, n) == {k \in 1..Len(cb) : cb[k].name.some /\ cb[k].name.val \in Candidates(n)}
Available(cb, n) == Matches(cb, n) # {}

Min(S) == CHOOSE m \in S : \A x \in S : m <= x

\* the first format, in enumeration order, that carries n
FirstMatch(cb, n) == cb[Min(Matches(cb, n))]

\* the first preferred name, in caller order, that is available; 0 if none is
FirstAvailable(cb, pl) ==
    IF \E i \in 1..Len(pl) : Available(cb, pl[i])
    THEN Min({i \in 1..Len(pl) : Available(cb, pl[i])})
    ELSE 0

\* the fetch of e fails, or the codec rejects what was fetched for a binary name n
AttemptFails(e, n) == ~e.fetchOk \/ (~IsText(n) /\ ~e.decodable)

Le4(n) == <<n % 256, (n \div 256) % 256, (n \div 65536) % 256, n \div 16777216>>

\* a well-formed bitmap file with a V5 info-header whose size_image is s, n
\* colour-table entries and p bytes of pixel data: the file header names the
\* file's length and the offset of the pixel data
Container(s, n, p) ==
    <<66, 77>> \o Le4(14 + BlobLen(n, p)) \o <<0, 0, 0, 0>> \o Le4(14 + 124 + 4 * n)
    \o Blob(as_u32(s), n, p)

\* a bitmap file without its 14-byte file header
StripFileHeader(c) == SubSeq(c, 15, Len(c))

\* bV5SizeImage of a raw blob, when it is below 2^16; -1 otherwise
SmallSizeImage(raw) ==
    IF raw[23] = 0 /\ raw[24] = 0 THEN raw[21] + 256 * raw[22] ELSE -1

\* the bfOffBits field of a synthesized buffer, when it is below 2^16; -1 otherwise
SmallOffBits(buf) ==
    IF buf[13] = 0 /\ buf[14] = 0 THEN buf[11] + 256 * buf[12] ELSE -1

\* the raw blob of the format the call resolved
ResolvedEntry == EntryOf(clipboard, call.resolved.val.id)

----------------------------------------------------------------------------
\* C1: with known preferred names and named formats, the first preferred name
\* (caller order) that has an available candidate decides the result: the
\* matched identifier is the first in enumeration order whose name is one of
\* its candidates, no later preferred name is looked at, and if no preferred
\* name is available the result is NotFound.
C1_FirstPreferredDecides ==
    (pc # "init" /\ AllKnown(preferred) /\ AllNamed(clipboard)) =>
        LET i == FirstAvailable(clipboard, preferred) IN
        IF i = 0
        THEN /\ call.outcome = "returned"
             /\ call.result = NotFound
             /\ call.resolved = None
             /\ call.looked = Len(preferred)
        ELSE LET e == FirstMatch(clipboard, preferred[i]) IN
             /\ call.resolved = Some([index |-> i, id |-> e.id, name |-> e.name.val])
             /\ call.looked = i

\* both preferred names are available, the second one's format is enumerated first
C1_Witness ==
    /\ pc = "built"
    /\ preferred = <<"Png", "Bmp">>
    /\ Len(clipboard) = 2
    /\ clipboard[1].name = Some("CF_DIBV5")
    /\ clipboard[2].name = Some("PNG")
    /\ call.resolved = Some([index |-> 1, id |-> clipboard[2].id, name |-> "PNG"])

\* C2 (as claimed): when the first available preferred name fails to fetch or
\* decode and a later preferred name is available, fetchable and decodable, the
\* call yields a Binary or Text result, not NotFound.
C2_FallsThroughToNextName ==
    (/\ pc # "init"
     /\ call.outcome = "returned"
     /\ AllKnown(preferred)
     /\ AllNamed(clipboard)
     /\ FirstAvailable(clipboard, preferred) # 0
     /\ LET i == FirstAvailable(clipboard, preferred) IN
        /\ AttemptFails(FirstMatch(clipboard, preferred[i]), preferred[i])
        /\ \E j \in (i + 1)..Len(preferred) :
              /\ Available(clipboard, preferred[j])
              /\ ~AttemptFails(FirstMatch(clipboard, preferred[j]), preferred[j]))
    => call.result.tag \in {"ImageBinary", "ImageString"}

\* C3: the buffer handed to the codec for a CF_DIBV5 blob of length L is the
\* magic 0x4D42, the size 14 + L, four zero bytes, the offset, then the blob
\* unmodified; the offset is 14 + sizeof(info header) when size_image is 0 and
\* 14 + (L - S) when 0 < S <= L.
C3_DibWrap ==
    (pc # "init" /\ call.synthesized /\ call.decodeInput.some) =>
        LET raw == ResolvedEntry.data
            L   == Len(raw)
            S   == SmallSizeImage(raw)
            buf == call.decodeInput.val
        IN  /\ Len(buf) = 14 + L
            /\ SubSeq(buf, 1, 2) = <<66, 77>>
            /\ SubSeq(buf, 3, 6) = Le4(14 + L)
            /\ SubSeq(buf, 7, 10) = <<0, 0, 0, 0>>
            /\ SubSeq(buf, 15, 14 + L) = raw
            /\ (S = 0 => SubSeq(buf, 11, 14) = Le4(14 + 124))
            /\ ((0 < S /\ S <= L) => SubSeq(buf, 11, 14) = Le4(14 + (L - S)))

\* a blob with a colour table and a nonzero size_image below its length was wrapped
C3_Witness ==
    /\ pc = "built"
    /\ call.synthesized
    /\ call.decodeInput.some
    /\ Len(ResolvedEntry.data) > 124 + 4
    /\ SmallSizeImage(ResolvedEntry.data) = 1
    /\ SmallOffBits(call.decodeInput.val) = 14 + Len(ResolvedEntry.data) - 1

\* C4 (as claimed): stripping the file header of any well-formed bitmap file and
\* synthesizing a header for the remaining blob reproduces the file byte for
\* byte, for size_image = 0 and size_image > 0, with or without a colour table.
C4_RoundTripAlways ==
    \A n \in 0..MaxColours, p \in 1..MaxPixels :
        \A s \in {0, p} :
            (/\ pc # "init"
             /\ call.synthesized
             /\ call.decodeInput.some
             /\ ResolvedEntry.data = StripFileHeader(Container(s, n, p)))
            => call.decodeInput.val = Container(s, n, p)

\* C4 (amended): the round trip reproduces the file when size_image is the
\* length of the pixel data (with or without a colour table), or when
\* size_image is 0 and no colour table follows the info-header.
C4_RoundTripWithoutImplicitTable ==
    \A n \in 0..MaxColours, p \in 1..MaxPixels :
        \A s \in {0, p} :
            (/\ pc # "init"
             /\ call.synthesized
             /\ call.decodeInput.some
             /\ (s # 0 \/ n = 0)
             /\ ResolvedEntry.data = StripFileHeader(Container(s, n, p)))
            => call.decodeInput.val = Container(s, n, p)

\* a file with a colour table and size_image > 0 was reproduced
C4_Witness ==
    /\ pc = "built"
    /\ call.decodeInput.some
    /\ MaxColours >= 1
    /\ ResolvedEntry.data = StripFileHeader(Container(1, 1, 1))
    /\ call.decodeInput.val = Container(1, 1, 1)

\* C5 (as claimed): a preferred list with an unknown name makes the call fail,
\* wherever the unknown name stands and whatever is available.
C5_UnknownNameAlwaysFails ==
    (pc # "init" /\ ~AllKnown(preferred)) => call.outcome = "panicked"

\* C5 (amended): the call fails when no preferred name before the first unknown
\* name has an available candidate; when an earlier name has one, the unknown
\* name is never looked up and is not what ends the call.
C5_UnknownNameFailsWhenReached ==
    (pc # "init" /\ ~AllKnown(preferred)) =>
        LET k == Min({i \in 1..Len(preferred) : preferred[i] \notin CatalogNames}) IN
        IF \E j \in 1..(k - 1) : Available(clipboard, preferred[j])
        THEN call.looked < k /\ call.panic # "unknown_name"
        ELSE call.outcome = "panicked"

\* an unknown name behind a name that resolved: the call returned an image
C5_Witness ==
    /\ pc = "built"
    /\ Len(preferred) = 2
    /\ preferred[2] \notin CatalogNames
    /\ call.outcome = "returned"
    /\ call.result.tag = "ImageString"

\* C6: write_to_buffer appends the stored bytes of a Text image and returns the
\* new total length; returns 0 and leaves the buffer alone for NotFound; for a
\* Binary image whose encode succeeds it keeps the existing content and
\* returns the number of bytes written, not the total length.
C6_WriteToBuffer ==
    pc = "written" =>
        CASE call.result.tag = "ImageString" ->
                /\ out = outBefore \o call.result.bytes
                /\ ret = Some(Len(outBefore) + Len(call.result.bytes))
          [] call.result.tag = "NotFound" ->
                /\ out = outBefore
                /\ ret = Some(0)
          [] call.result.tag = "ImageBinary" ->
                (call.result.image.some /\ ret.some) =>
                    /\ Len(out) >= Len(outBefore)
                    /\ SubSeq(out, 1, Len(outBefore)) = outBefore
                    /\ ret.val = Len(out) - Len(outBefore)

\* a Binary image was encoded behind existing content of the buffer
C6_Witness ==
    /\ pc = "written"
    /\ call.result.tag = "ImageBinary"
    /\ ret.some
    /\ outBefore # << >>
    /\ Len(out) > Len(outBefore)

\* C7 (as claimed, for known preferred names): when the first available
\* preferred name is of Text kind and its fetch succeeds, the result is Text(id, name, bytes) with the matched
\* non-zero id, the matched name and the fetched bytes, without synthesis or decode.
C7_TextVerbatim ==
    (/\ pc # "init"
     /\ AllKnown(preferred)
     /\ FirstAvailable(clipboard, preferred) # 0
     /\ IsText(preferred[FirstAvailable(clipboard, preferred)])
     /\ FirstMatch(clipboard, preferred[FirstAvailable(clipboard, preferred)]).fetchOk)
    => LET e == FirstMatch(clipboard, preferred[FirstAvailable(clipboard, preferred)]) IN
       /\ call.outcome = "returned"
       /\ e.id # 0
       /\ call.result = ImageString(e.id, e.name.val, e.data)
       /\ ~call.synthesized
       /\ ~call.decodeInput.some

\* C8 (as claimed): whenever a preferred name resolved, the call does not
\* return NotFound.
C8_NotFoundOnlyIfUnresolved ==
    (pc # "init" /\ call.outcome = "returned" /\ call.resolved.some)
    => call.result # NotFound

\* C8 (amended): a call that returns gives NotFound exactly when no preferred
\* name resolved or the one that resolved failed to fetch or to decode.
C8_NotFoundIffUnresolvedOrFailed ==
    (pc # "init" /\ call.outcome = "returned") =>
        (call.result = NotFound <=>
            \/ ~call.resolved.some
            \/ AttemptFails(ResolvedEntry, preferred[call.resolved.val.index]))

\* a name resolved, its bytes were fetched, the codec rejected them: NotFound
C8_Witness ==
    /\ pc = "built"
    /\ call.outcome = "returned"
    /\ call.resolved.some
    /\ ResolvedEntry.fetchOk
    /\ call.decodeInput.some
    /\ call.result = NotFound

\* C9 (as claimed): resolution never aborts, also with nameless identifiers on
\* the clipboard, and a match has a non-zero id and a real candidate name.
C9_ResolutionTotal ==
    pc # "init" =>
        /\ call.panic # "format_name"
        /\ call.resolved.some =>
              /\ call.resolved.val.id # 0
              /\ call.resolved.val.name # ""
              /\ call.resolved.val.name \in Candidates(preferred[call.resolved.val.index])

\* C10 (as claimed, on a build that reads the header through the misaligned
\* reference): for every fetched CF_DIBV5 blob, whatever its length and its
\* size_image, synthesis completes with
\* 14 + sizeof(info header) <= offset <= 14 + L.
C10_OffsetInsideBuffer ==
    (/\ pc # "init"
     /\ ~alignChecks
     /\ call.resolved.some
     /\ call.resolved.val.name = "CF_DIBV5"
     /\ ResolvedEntry.fetchOk
     /\ ResolvedEntry.sizeOk)
    => /\ call.panic = "none"
       /\ call.decodeInput.some
       /\ SmallOffBits(call.decodeInput.val) >= 14 + 124
       /\ SmallOffBits(call.decodeInput.val) <= 14 + Len(ResolvedEntry.data)

====
